---- MODULE Spec2Model ----
(***************************************************************************)
(* Model of packages/next/src/client/components/redirect.ts: the redirect  *)
(* signal codec.  A redirect is signalled by throwing an Error whose       *)
(* `digest` string is "NEXT_REDIRECT;<type>;<url>;<permanent>"; catch      *)
(* sites probe a caught value with isRedirectError and decode it with      *)
(* getURLFromRedirectError, getRedirectTypeFromError and                   *)
(* getRedirectStatusCodeFromError.                                         *)
(*                                                                         *)
(* JavaScript values are records tagged by `t`; a string is the sequence   *)
(* of its characters, so that the template literal of getRedirectError    *)
(* and String.prototype.split are computed character by character.         *)
(***************************************************************************)
EXTENDS Integers, Sequences, FiniteSets

VARIABLES
  stores,   \* per async context: the store requestAsyncStorage.getStore() yields
  jars,     \* contents of each request's mutable cookie jar
  caught,   \* the value now held by the catch site (constructed, thrown or foreign)
  origin,   \* how `caught` came about: the call and its arguments (history)
  result    \* the last operation applied and its outcome (return or throw)

vars == <<stores, jars, caught, origin, result>>

----------------------------------------------------------------------------
(* Bounds of the model *)

\* longest url, counted in tokens of UrlTokens
MaxUrlTokens == 3
\* most fields a foreign digest is joined from
MaxFields == 5

----------------------------------------------------------------------------
(* JavaScript values *)

Undefined == [t |-> "undefined"]
Null == [t |-> "null"]
JSBool(b) == [t |-> "boolean", b |-> b]
JSNum(n) == [t |-> "number", n |-> n]
Str(s) == [t |-> "string", chars |-> s]
JarRef(j) == [t |-> "jar", jar |-> j]
Store(j) == [t |-> "store", mutableCookies |-> JarRef(j)]
\* an Error-like object; an absent property reads as undefined
Obj(message, digest, cookies) ==
  [t |-> "object", message |-> message, digest |-> digest, mutableCookies |-> cookies]

TypeOf(v) == IF v.t \in {"null", "jar", "store"} THEN "object" ELSE v.t

Truthy(v) ==
  CASE v.t \in {"undefined", "null"} -> FALSE
    [] v.t = "boolean" -> v.b
    [] v.t = "number" -> v.n # 0
    [] v.t = "string" -> v.chars # <<>>
    [] OTHER -> TRUE

\* String(v), as a template literal applies it
StringOf(v) ==
  CASE v.t = "string" -> v.chars
    [] v.t = "boolean" -> IF v.b THEN <<"t","r","u","e">> ELSE <<"f","a","l","s","e">>
    [] v.t = "undefined" -> <<"u","n","d","e","f","i","n","e","d">>
    [] v.t = "null" -> <<"n","u","l","l">>
    [] OTHER -> <<"[","o","b","j","e","c","t","]">>

\* a parameter default: `x = d` in a signature
Default(v, d) == IF v = Undefined THEN d ELSE v

\* outcomes of a call
Return(v) == [kind |-> "return", value |-> v]
Throw(v) == [kind |-> "throw", value |-> v]

----------------------------------------------------------------------------
(* Constants of redirect.ts *)

REDIRECT_ERROR_CODE == <<"N","E","X","T","_","R","E","D","I","R","E","C","T">>
Delim == ";"
push == <<"p","u","s","h">>
replace == <<"r","e","p","l","a","c","e">>
RedirectType == {Str(push), Str(replace)}
NotARedirectError ==
  Obj(Str(<<"N","o","t"," ","a"," ","r","e","d","i","r","e","c","t"," ","e","r","r","o","r">>),
      Undefined, Undefined)
TypeError == Obj(Str(<<"T","y","p","e","E","r","r","o","r">>), Undefined, Undefined)

----------------------------------------------------------------------------
(* String.prototype.split(separator, limit): the string is cut at EVERY    *)
(* separator and the array is then truncated to its first `limit` entries. *)

RECURSIVE SplitAll(_, _, _, _)
SplitAll(s, sep, cur, acc) ==
  IF s = <<>> THEN Append(acc, cur)
  ELSE IF Head(s) = sep THEN SplitAll(Tail(s), sep, <<>>, Append(acc, cur))
  ELSE SplitAll(Tail(s), sep, Append(cur, Head(s)), acc)

Min(a, b) == IF a < b THEN a ELSE b

split(s, sep, limit) ==
  LET all == SplitAll(s, sep, <<>>, <<>>)
  IN SubSeq(all, 1, Min(limit, Len(all)))

\* arr[i] of a JS array (0-based); a missing index reads as undefined
At(arr, i) == IF i + 1 <= Len(arr) THEN Str(arr[i + 1]) ELSE Undefined

\* error.digest and error?.digest
GetDigest(v) ==
  CASE v.t \in {"undefined", "null"} -> Throw(TypeError)
    [] v.t = "object" -> Return(v.digest)
    [] OTHER -> Return(Undefined)

\* mutant: `error.digest` in place of `error?.digest`
OptGetDigest_plain(v) == GetDigest(v)

OptGetDigest(v) ==
  IF v.t \in {"undefined", "null"} THEN Return(Undefined) ELSE GetDigest(v)

----------------------------------------------------------------------------
(* The request-scoped store (collaborator): requestAsyncStorage.getStore() *)
(* yields the store bound to the calling async context, or undefined.      *)

Requests == {"r1", "r2"}
Cookies == {"sid"}

getStore(ctx) == stores[ctx]

----------------------------------------------------------------------------
(* redirect.ts *)

\* `${REDIRECT_ERROR_CODE};${type};${url};${permanent}`
Digest(type, url, permanent) ==
  REDIRECT_ERROR_CODE \o <<Delim>> \o StringOf(type) \o <<Delim>>
    \o StringOf(url) \o <<Delim>> \o StringOf(permanent)

\* mutant: the cookie jar of the request store is never attached
getRedirectError_noCookies(url, type, permanent, ctx) ==
  LET perm == Default(permanent, JSBool(FALSE))
  IN Obj(Str(REDIRECT_ERROR_CODE), Str(Digest(type, url, perm)), Undefined)

getRedirectError(url, type, permanent, ctx) ==
  LET perm == Default(permanent, JSBool(FALSE))
      digest == Str(Digest(type, url, perm))
      requestStore == getStore(ctx)
  IN Obj(Str(REDIRECT_ERROR_CODE), digest,
         IF Truthy(requestStore) THEN requestStore.mutableCookies ELSE Undefined)

redirect(url, type, ctx) ==
  Throw(getRedirectError(url, Default(type, Str(replace)), JSBool(FALSE), ctx))

permanentRedirect(url, type, ctx) ==
  Throw(getRedirectError(url, Default(type, Str(replace)), JSBool(TRUE), ctx))

\* mutant: the permanent field is not validated
isRedirectError_noPermanentCheck(error) ==
  LET d == OptGetDigest(error)
  IN IF d.kind = "throw" THEN d
     ELSE IF TypeOf(d.value) # "string" THEN Return(JSBool(FALSE))
     ELSE LET parts == split(d.value.chars, Delim, 4)
          IN Return(JSBool(
               /\ At(parts, 0) = Str(REDIRECT_ERROR_CODE)
               /\ (At(parts, 1) = Str(replace) \/ At(parts, 1) = Str(push))
               /\ TypeOf(At(parts, 2)) = "string"))

isRedirectError(error) ==
  LET d == OptGetDigest(error)
  IN IF d.kind = "throw" THEN d
     ELSE IF TypeOf(d.value) # "string" THEN Return(JSBool(FALSE))
     ELSE LET parts == split(d.value.chars, Delim, 4)
              errorCode == At(parts, 0)
              type == At(parts, 1)
              destination == At(parts, 2)
              permanent == At(parts, 3)
          IN Return(JSBool(
               /\ errorCode = Str(REDIRECT_ERROR_CODE)
               /\ (type = Str(replace) \/ type = Str(push))
               /\ TypeOf(destination) = "string"
               /\ (permanent = Str(<<"t","r","u","e">>)
                     \/ permanent = Str(<<"f","a","l","s","e">>))))

\* mutant: only the digest's type is checked before decoding
getURLFromRedirectError_unguarded(error) ==
  LET d == OptGetDigest(error).value
  IN IF TypeOf(d) # "string" THEN Return(Null)
     ELSE Return(At(split(d.chars, Delim, 3), 2))

getURLFromRedirectError(error) ==
  LET r == isRedirectError(error)
  IN IF r.kind = "throw" THEN r
     ELSE IF ~Truthy(r.value) THEN Return(Null)
     ELSE Return(At(split(error.digest.chars, Delim, 3), 2))

\* mutant: only the digest's type is checked before decoding
getRedirectTypeFromError_unguarded(error) ==
  LET d == OptGetDigest(error).value
  IN IF TypeOf(d) # "string" THEN Throw(NotARedirectError)
     ELSE Return(At(split(d.chars, Delim, 2), 1))

getRedirectTypeFromError(error) ==
  LET r == isRedirectError(error)
  IN IF r.kind = "throw" THEN r
     ELSE IF ~Truthy(r.value) THEN Throw(NotARedirectError)
     ELSE Return(At(split(error.digest.chars, Delim, 2), 1))

getRedirectStatusCodeFromError(error) ==
  LET r == isRedirectError(error)
  IN IF r.kind = "throw" THEN r
     ELSE IF ~Truthy(r.value) THEN Throw(NotARedirectError)
     ELSE Return(IF At(split(error.digest.chars, Delim, 4), 3) = Str(<<"t","r","u","e">>)
                 THEN JSNum(308) ELSE JSNum(307))

----------------------------------------------------------------------------
(* Inputs *)

\* sequences of at most n elements of S
RECURSIVE SeqsUpTo(_, _)
SeqsUpTo(S, n) ==
  IF n = 0 THEN {<<>>}
  ELSE LET shorter == SeqsUpTo(S, n - 1)
       IN shorter \cup {Append(q, x) : q \in shorter, x \in S}

RECURSIVE Concat(_)
Concat(parts) == IF parts = <<>> THEN <<>> ELSE Head(parts) \o Concat(Tail(parts))

\* fields joined by the delimiter, as a digest written by other code would be
RECURSIVE Join(_)
Join(fields) ==
  IF Len(fields) = 1 THEN Head(fields)
  ELSE Head(fields) \o <<Delim>> \o Join(Tail(fields))

\* urls: any string, the delimiter included
UrlTokens == {<<"x">>, <<Delim>>, <<"t","r","u","e">>}
Urls == {Concat(ts) : ts \in SeqsUpTo(UrlTokens, MaxUrlTokens)}

ShortUrls == {u \in Urls : Len(u) <= 1}

TypeArgs == RedirectType \cup {Undefined}
PermanentArgs == {JSBool(FALSE), JSBool(TRUE), Undefined}

\* delimiter-free fields of a foreign digest
FieldWords ==
  {REDIRECT_ERROR_CODE, push, replace, <<"t","r","u","e">>, <<"f","a","l","s","e">>, <<>>}
\* digests that collide on the tag and fail elsewhere
forward == <<"f","o","r","w","a","r","d">>
yes == <<"y","e","s">>
CollidingFields ==
  {<<REDIRECT_ERROR_CODE, forward, <<"/","x">>, <<"f","a","l","s","e">>>>,
   <<REDIRECT_ERROR_CODE, push, <<"/","x">>, yes>>,
   <<REDIRECT_ERROR_CODE \o <<"S">>, push, <<"/","x">>, <<"t","r","u","e">>>>,
   <<REDIRECT_ERROR_CODE, <<"P","U","S","H">>, <<"/","x">>, <<"t","r","u","e">>>>,
   <<REDIRECT_ERROR_CODE, replace, <<"/","x">>, <<"t","r","u","e"," ">>>>}
FieldSeqs == (SeqsUpTo(FieldWords, MaxFields) \ {<<>>}) \cup CollidingFields

\* caught values that carry no string digest
Boom == Obj(Str(<<"b","o","o","m">>), Undefined, Undefined)
ForeignValues ==
  {Undefined, Null, JSNum(0), JSBool(TRUE),
   Str(Digest(Str(push), Str(<<"x">>), JSBool(TRUE))),
   Boom, Obj(Undefined, Undefined, Undefined),
   Obj(Undefined, JSNum(307), Undefined), Obj(Undefined, Null, Undefined),
   Obj(Undefined, Boom, Undefined)}

----------------------------------------------------------------------------
(* State machine *)

NoOrigin ==
  [fn |-> "none", url |-> <<>>, type |-> Undefined, permanent |-> Undefined,
   ctx |-> "r1", store |-> Undefined, fields |-> <<>>]

\* no value is held by the catch site: rendering is under way
Idle == origin.fn = "none"

Init ==
  /\ stores = [r \in Requests |-> Undefined]
  /\ jars = [r \in Requests |-> {}]
  /\ caught = Undefined
  /\ origin = NoOrigin
  /\ result = [op |-> "none", out |-> Return(Undefined)]

\* the runtime enters a request: AsyncLocalStorage.run(store, ...)
StoreRun(r) ==
  /\ stores[r] = Undefined
  /\ stores' = [stores EXCEPT ![r] = Store(r)]
  /\ jars' = [jars EXCEPT ![r] = {}]
  /\ UNCHANGED <<caught, origin, result>>

\* the request's async context ends
StoreExit(r) ==
  /\ stores[r] # Undefined
  /\ stores' = [stores EXCEPT ![r] = Undefined]
  /\ UNCHANGED <<jars, caught, origin, result>>

\* code of request r sets a cookie in its jar
CookieSet(r, c) ==
  /\ stores[r] # Undefined
  /\ c \notin jars[r]
  /\ jars' = [jars EXCEPT ![r] = @ \cup {c}]
  /\ UNCHANGED <<stores, caught, origin, result>>

CallGetRedirectError(ctx, url, type, permanent) ==
  LET error == getRedirectError(Str(url), type, permanent, ctx)
  IN /\ Idle
     /\ caught' = error
     /\ origin' = [fn |-> "getRedirectError", url |-> url, type |-> type,
                   permanent |-> permanent, ctx |-> ctx, store |-> stores[ctx],
                   fields |-> <<>>]
     /\ result' = [op |-> "getRedirectError", out |-> Return(error)]
     /\ UNCHANGED <<stores, jars>>

CallRedirect(ctx, url, type) ==
  LET out == redirect(Str(url), type, ctx)
  IN /\ Idle
     /\ caught' = out.value
     /\ origin' = [fn |-> "redirect", url |-> url, type |-> type,
                   permanent |-> Undefined, ctx |-> ctx, store |-> stores[ctx],
                   fields |-> <<>>]
     /\ result' = [op |-> "redirect", out |-> out]
     /\ UNCHANGED <<stores, jars>>

CallPermanentRedirect(ctx, url, type) ==
  LET out == permanentRedirect(Str(url), type, ctx)
  IN /\ Idle
     /\ caught' = out.value
     /\ origin' = [fn |-> "permanentRedirect", url |-> url, type |-> type,
                   permanent |-> Undefined, ctx |-> ctx, store |-> stores[ctx],
                   fields |-> <<>>]
     /\ result' = [op |-> "permanentRedirect", out |-> out]
     /\ UNCHANGED <<stores, jars>>

\* a catch site receives a value thrown by other code
CatchValue(c) ==
  /\ Idle
  /\ caught' = c
  /\ origin' = [NoOrigin EXCEPT !.fn = "value"]
  /\ result' = [op |-> "catch", out |-> Return(Undefined)]
  /\ UNCHANGED <<stores, jars>>

CatchDigest(fields) ==
  /\ Idle
  /\ caught' = Obj(Str(<<"b","o","o","m">>), Str(Join(fields)), Undefined)
  /\ origin' = [NoOrigin EXCEPT !.fn = "digest", !.fields = fields]
  /\ result' = [op |-> "catch", out |-> Return(Undefined)]
  /\ UNCHANGED <<stores, jars>>

CallIsRedirectError ==
  /\ ~Idle
  /\ result' = [op |-> "isRedirectError", out |-> isRedirectError(caught)]
  /\ UNCHANGED <<stores, jars, caught, origin>>

CallGetURLFromRedirectError ==
  /\ ~Idle
  /\ result' = [op |-> "getURLFromRedirectError", out |-> getURLFromRedirectError(caught)]
  /\ UNCHANGED <<stores, jars, caught, origin>>

CallGetRedirectTypeFromError ==
  /\ ~Idle
  /\ result' = [op |-> "getRedirectTypeFromError", out |-> getRedirectTypeFromError(caught)]
  /\ UNCHANGED <<stores, jars, caught, origin>>

CallGetRedirectStatusCodeFromError ==
  /\ ~Idle
  /\ result' = [op |-> "getRedirectStatusCodeFromError",
                out |-> getRedirectStatusCodeFromError(caught)]
  /\ UNCHANGED <<stores, jars, caught, origin>>

\* the catching frame is done with the value; rendering goes on to the next throw
Consume ==
  /\ ~Idle
  /\ caught' = Undefined
  /\ origin' = NoOrigin
  /\ result' = [op |-> "none", out |-> Return(Undefined)]
  /\ UNCHANGED <<stores, jars>>

Probe ==
  \/ CallIsRedirectError
  \/ CallGetURLFromRedirectError
  \/ CallGetRedirectTypeFromError
  \/ CallGetRedirectStatusCodeFromError

\* requests construct and throw signals with urls of U; the catch site decodes them
NextOver(U) ==
  \/ \E r \in Requests : StoreRun(r)
  \/ \E r \in Requests : StoreExit(r)
  \/ \E r \in Requests, c \in Cookies : CookieSet(r, c)
  \/ Idle /\ \E r \in Requests, url \in U, type \in RedirectType, p \in PermanentArgs :
               CallGetRedirectError(r, url, type, p)
  \/ Idle /\ \E r \in Requests, url \in U, type \in TypeArgs : CallRedirect(r, url, type)
  \/ Idle /\ \E r \in Requests, url \in U, type \in TypeArgs :
               CallPermanentRedirect(r, url, type)
  \/ Probe
  \/ Consume

Next == NextOver(Urls)

Spec == Init /\ [][Next]_vars

\* the same machine over the shortest urls, for the properties of the cookie jar
NextCookies == NextOver(ShortUrls)

SpecCookies == Init /\ [][NextCookies]_vars

\* the catch site is handed arbitrary values and probes them
NextRecognize ==
  \/ Idle /\ \E c \in ForeignValues : CatchValue(c)
  \/ Idle /\ \E fields \in FieldSeqs : CatchDigest(fields)
  \/ Probe
  \/ Consume

SpecRecognize == Init /\ [][NextRecognize]_vars

----------------------------------------------------------------------------
(* What a constructed signal was meant to say *)

Constructed == origin.fn \in {"getRedirectError", "redirect", "permanentRedirect"}
Thrown == origin.fn \in {"redirect", "permanentRedirect"}

IntendedType == Default(origin.type, Str(replace))

IntendedPermanent ==
  CASE origin.fn = "permanentRedirect" -> TRUE
    [] origin.fn = "redirect" -> FALSE
    [] OTHER -> origin.permanent = JSBool(TRUE)

IntendedStatus == IF IntendedPermanent THEN JSNum(308) ELSE JSNum(307)

Recognized(v) == isRedirectError(v) = Return(JSBool(TRUE))

----------------------------------------------------------------------------
(* Claims *)

\* C1: getURLFromRedirectError(getRedirectError(d, m, p)) returns exactly d, for
\* every string d, the delimiter included.
C1_DestinationRoundTrip ==
  (origin.fn = "getRedirectError" /\ result.op = "getURLFromRedirectError")
    => result.out = Return(Str(origin.url))

\* C2: isRedirectError(getRedirectError(d, m, p)) is true for every string d.
C2_ConstructedIsRecognized ==
  (origin.fn = "getRedirectError" /\ result.op = "isRedirectError")
    => result.out = Return(JSBool(TRUE))

\* C3: on getRedirectError(d, m, p), getRedirectTypeFromError returns m and
\* getRedirectStatusCodeFromError returns 307 or 308 by p; neither throws.
C3_ModeAndStatusRoundTrip ==
  origin.fn = "getRedirectError" =>
    /\ result.op = "getRedirectTypeFromError" => result.out = Return(origin.type)
    /\ result.op = "getRedirectStatusCodeFromError" => result.out = Return(IntendedStatus)

\* C4: isRedirectError returns true exactly when the digest is a string whose
\* first four ';'-separated fields are the tag, a navigation mode, any third
\* field, and 'true' or 'false'; every other candidate is rejected.
C4_FieldsValid ==
  /\ origin.fn = "digest"
  /\ Len(origin.fields) >= 4
  /\ origin.fields[1] = REDIRECT_ERROR_CODE
  /\ origin.fields[2] \in {push, replace}
  /\ origin.fields[4] \in {<<"t","r","u","e">>, <<"f","a","l","s","e">>}

C4_RecognizeExact ==
  result.op = "isRedirectError" => result.out = Return(JSBool(C4_FieldsValid))

\* a digest that collides on the tag, has four fields or more, and is rejected
C4_Witness ==
  /\ result.op = "isRedirectError"
  /\ origin.fn = "digest"
  /\ Len(origin.fields) >= 4
  /\ origin.fields[1] = REDIRECT_ERROR_CODE
  /\ result.out = Return(JSBool(FALSE))

\* C5: redirect and permanentRedirect always throw, and the thrown value is
\* recognized, carries the given type (replace by default) and decodes to 307
\* for redirect, 308 for permanentRedirect, for any url string.
C5_ThrowHelpers ==
  Thrown =>
    /\ result.op \in {"redirect", "permanentRedirect"} => result.out.kind = "throw"
    /\ result.op = "isRedirectError" => result.out = Return(JSBool(TRUE))
    /\ result.op = "getRedirectTypeFromError" => result.out = Return(IntendedType)
    /\ result.op = "getRedirectStatusCodeFromError" => result.out = Return(IntendedStatus)

\* C6: on a candidate that isRedirectError rejects, getRedirectTypeFromError and
\* getRedirectStatusCodeFromError throw 'Not a redirect error', return nothing,
\* and leave the candidate as it was.
C6_Rejected ==
  (/\ result.op \in {"getRedirectTypeFromError", "getRedirectStatusCodeFromError"}
   /\ ~Recognized(caught))
    => result.out = Throw(NotARedirectError)

\* C6: the rejection above holds in every state, and a call of either function
\* leaves the candidate unchanged.
C6_InvalidArgument ==
  /\ []C6_Rejected
  /\ [][(/\ result'.op \in {"getRedirectTypeFromError", "getRedirectStatusCodeFromError"}
         /\ result' # result) => caught' = caught]_vars

\* a plain Error('boom') handed to getRedirectTypeFromError
C6_Witness ==
  /\ caught = Boom
  /\ result.op = "getRedirectTypeFromError"
  /\ result.out = Throw(NotARedirectError)

ExtractionOps ==
  {"getURLFromRedirectError", "getRedirectTypeFromError", "getRedirectStatusCodeFromError"}

\* C7: every extraction operation, getURLFromRedirectError included, ends in an
\* error (not a returned default) on an argument that isRedirectError rejects.
C7_AllExtractionsFailLoudly ==
  (result.op \in ExtractionOps /\ ~Recognized(caught)) => result.out.kind = "throw"

\* C7 as amended: every extraction operation re-runs isRedirectError; on a
\* rejected argument getRedirectTypeFromError and getRedirectStatusCodeFromError
\* throw, while getURLFromRedirectError returns null; a decoded value is
\* returned only for a recognized argument.
C7_ExtractionsGuarded ==
  result.op \in ExtractionOps =>
    IF Recognized(caught)
    THEN result.out.kind = "return" /\ result.out.value # Null
    ELSE IF result.op = "getURLFromRedirectError"
         THEN result.out = Return(Null)
         ELSE result.out.kind = "throw"

\* a digest written by other code, handed to getURLFromRedirectError
C7_Witness ==
  /\ origin.fn = "digest"
  /\ ~Recognized(caught)
  /\ result.op = "getURLFromRedirectError"
  /\ result.out = Return(Null)

NoStringDigest(v) == v.t # "object" \/ v.digest.t # "string"

\* C8: isRedirectError never throws: on a candidate of any shape it returns a
\* boolean, and false when the digest is missing or not a string.
C8_RecognizeNeverThrows ==
  result.op = "isRedirectError" =>
    /\ result.out.kind = "return"
    /\ result.out.value.t = "boolean"
    /\ NoStringDigest(caught) => result.out.value = JSBool(FALSE)

\* isRedirectError(undefined)
C8_Witness ==
  /\ caught = Undefined
  /\ origin.fn = "value"
  /\ result.op = "isRedirectError"
  /\ result.out = Return(JSBool(FALSE))

StripCookies(v) == IF v.t = "object" THEN [v EXCEPT !.mutableCookies = Undefined] ELSE v

ApplyProbe(op, v) ==
  CASE op = "isRedirectError" -> isRedirectError(v)
    [] op = "getURLFromRedirectError" -> getURLFromRedirectError(v)
    [] op = "getRedirectTypeFromError" -> getRedirectTypeFromError(v)
    [] op = "getRedirectStatusCodeFromError" -> getRedirectStatusCodeFromError(v)

\* C9: a constructed signal carries a cookie jar iff a store was active in the
\* constructing request, and then the jar of that request and of no other;
\* construction changes no jar and no store; recognition and the extractions
\* give the same result with and without the jar.
C9_Attached ==
  Constructed =>
    /\ (caught.mutableCookies # Undefined) <=> (origin.store # Undefined)
    /\ origin.store # Undefined => caught.mutableCookies = JarRef(origin.ctx)
    /\ \A r \in Requests \ {origin.ctx} : caught.mutableCookies # JarRef(r)
    /\ result.op \in ExtractionOps \cup {"isRedirectError"} =>
         result.out = ApplyProbe(result.op, StripCookies(caught))

\* C9: the attachment above holds in every state, and constructing a signal
\* changes no jar and no store.
C9_CookieAttachment ==
  /\ []C9_Attached
  /\ [][(Idle /\ ~Idle') => (jars' = jars /\ stores' = stores)]_vars

\* a signal of r2 carrying r2's jar is decoded while r1 runs with a jar of its own
C9_Witness ==
  /\ Constructed
  /\ origin.ctx = "r2"
  /\ caught.mutableCookies = JarRef("r2")
  /\ stores["r1"] # Undefined
  /\ jars["r1"] # {}
  /\ jars["r2"] # {}
  /\ result.op = "getURLFromRedirectError"

\* C10: a signal of getRedirectError that isRedirectError accepts decodes to the
\* url and the permanence it was constructed with.
C10_NoSilentMisdecoding ==
  (origin.fn = "getRedirectError" /\ Recognized(caught)) =>
    /\ result.op = "getURLFromRedirectError" => result.out = Return(Str(origin.url))
    /\ result.op = "getRedirectStatusCodeFromError" => result.out = Return(IntendedStatus)

====
